---------------------------- MODULE Spec2Model ----------------------------
(***************************************************************************)
(* A model of rcsfile.py: the RCSFile file model (get_head,                *)
(* get_ancestor_tuples) and the revision-aware grep.                       *)
(*                                                                         *)
(* A revision number is a sequence of naturals (<<1, 2>> is "1.2"); the    *)
(* empty string, which pyparsing gives for an absent head or next, is the  *)
(* empty sequence.  A delta text is held as text.split('\n'): a sequence   *)
(* of lines whose last element is the empty string that follows the final  *)
(* newline.  A line is a record: k = "t" is a line with text s that        *)
(* carries no edit command; k = "d" / k = "a" is a line "d<M> <N>" /       *)
(* "a<M> <N>", the lines on which the regular expressions delc / insc      *)
(* match.                                                                  *)
(***************************************************************************)
EXTENDS Integers, Sequences, FiniteSets, TLC

VARIABLES
    admin_head,   \* self._admin.head
    deltas,       \* self._deltas: deltanum -> next
    deltatexts,   \* self._deltatexts: deltanum -> text.split('\n')
    op,           \* the operation in progress: "none", "head", "ancestors", "grep"
    pc,           \* the position in that operation
    arg,          \* the deltanum argument of get_ancestor_tuples
    pattern,      \* grep's pattern
    format,       \* grep's format
    wraplines,    \* grep's wraplines
    nexts,        \* get_ancestor_tuples: the tuples not yet popped
    ancestors,    \* get_ancestor_tuples: the list being built, then grep's
    warnings,     \* the warnings emitted (warnings.warn)
    di,           \* grep: index in ancestors of the delta being visited
    matches,      \* grep: the list of matches
    pj,           \* grep: index of the propagation loop over matches
    result        \* the value returned or the error raised

vars == <<admin_head, deltas, deltatexts, op, pc, arg, pattern, format,
          wraplines, nexts, ancestors, warnings, di, matches, pj, result>>

----------------------------------------------------------------------------
(* Bounds of the model.                                                    *)

\* Most lines of a head text.
MaxHead == 2
\* Most payload lines of one insertion block.
MaxBlock == 2
\* Most commands of one edit script.
MaxCmds == 2
\* Most revisions of a file with an unbroken trunk.
MaxRevs == 2
\* Most revisions of a file whose next fields are arbitrary.
MaxChain == 3
\* Cap on the length of the matches list (the propagation loop is unbounded
\* when next names curr).
MaxMatches == 16

----------------------------------------------------------------------------
(* Lines and the regular expressions applied to them.                      *)

NoRev == <<>>

T(s) == [k |-> "t", M |-> 0, N |-> 0, s |-> s]
D(m, n) == [k |-> "d", M |-> m, N |-> n, s |-> ""]
A(m, n) == [k |-> "a", M |-> m, N |-> n, s |-> ""]

EmptyLine == T("")

\* The lines texts are made of: "foo", "foo\", "bar", "d1 1", "a1 1".
Alphabet == {T("foo"), T("foo\\"), T("bar"), D(1, 1), A(1, 1)}

\* The patterns grep is called with, as regular expressions.
Patterns == {"foo", "[ad]"}

\* matcher.match(line): the pattern matches at column 0.
matcher_match(p, line) ==
    CASE p = "foo" -> line.k = "t" /\ line.s \in {"foo", "foo\\"}
      [] p = "[ad]" -> line.k \in {"a", "d"}
      [] OTHER -> FALSE

\* wraplines.match(line): '.*\\$' when wraplines is set, '$.^' (which matches
\* nothing) when it is not.
wraplines_match(w, line) == w /\ line.k = "t" /\ line.s = "foo\\"

\* delc.match(line), insc.match(line): the line starts with a command.
delc_match(line) == line.k = "d"
insc_match(line) == line.k = "a"

\* The order of Python strings on the lines of the model.
LineRank(line) ==
    CASE line.k = "a" -> 1
      [] line.k = "d" -> 3
      [] line.s = "" -> 0
      [] line.s = "bar" -> 2
      [] line.s = "foo" -> 4
      [] OTHER -> 5

----------------------------------------------------------------------------
(* Lists.                                                                  *)

\* F(x), with x evaluated once.
Once(F(_), x) == CHOOSE y \in {F(v) : v \in {x}} : TRUE

\* sorted(s) under a total preorder Leq; Python's sort is stable.
SortedBy(s, Leq(_, _)) ==
    LET n == Len(s)
        Before(j, i) == \/ ~Leq(s[i], s[j])
                        \/ (Leq(s[j], s[i]) /\ j < i)
        Pos(i) == Cardinality({j \in 1..n : j # i /\ Before(j, i)}) + 1
    IN [p \in 1..n |-> s[CHOOSE i \in 1..n : Pos(i) = p]]

\* Tuples (startline, nolines) as Python compares them.
PairLeq(a, b) == a[1] < b[1] \/ (a[1] = b[1] /\ a[2] <= b[2])

\* Tuples (curr, lineno, line) of one revision as Python compares them.
MatchLeq(a, b) ==
    \/ a[2] < b[2]
    \/ (a[2] = b[2] /\ LineRank(a[3]) <= LineRank(b[3]))

RECURSIVE SumN(_, _)
\* sum(x[1] for x in cmds if x[0] < lineno)
SumN(cmds, lineno) ==
    IF cmds = <<>> THEN 0
    ELSE (IF Head(cmds)[1] < lineno THEN Head(cmds)[2] ELSE 0)
         + SumN(Tail(cmds), lineno)

----------------------------------------------------------------------------
(* grep: the visit of one delta (the body of `for delta in ancestors`, up  *)
(* to the sort of the matches of curr).                                    *)

\* The state of the scan of a delta text before its first line.
ScanInit(ms) ==
    [status |-> "None", startline |-> 0, nolines |-> 0, insertline |-> 0,
     deletions |-> <<>>, insertions |-> <<>>, insertlines |-> <<>>,
     takenext |-> FALSE, matches |-> ms]

\* One iteration of `for i, line in enumerate(deltatext, 1)`.
ScanLine(st, curr, ishead, len, i, line, p, w) ==
    IF ishead /\ i # len THEN
        IF matcher_match(p, line) \/ st.takenext
        THEN [st EXCEPT !.matches = Append(@, <<curr, i, line>>),
                        !.takenext = wraplines_match(w, line)]
        ELSE st
    ELSE IF delc_match(line) THEN
        \* status = DELETE, then the `if status == DELETE` branch
        [st EXCEPT !.startline = line.M, !.nolines = line.N,
                   !.deletions = Append(@, <<line.M, line.N>>),
                   !.matches = LET Keep(m) == ~(m[1] = curr /\ line.M <= m[2]
                                                /\ m[2] < line.M + line.N)
                               IN SelectSeq(@, Keep),
                   !.status = "None"]
    ELSE IF insc_match(line) THEN
        [st EXCEPT !.status = "INSERT", !.startline = line.M,
                   !.nolines = line.N, !.insertline = 1,
                   !.insertions = Append(@, <<line.M, line.N>>)]
    ELSE IF st.status = "INSERT" THEN
        IF st.insertline <= st.nolines THEN
            IF matcher_match(p, line) \/ st.takenext
            THEN [st EXCEPT !.insertlines =
                               Append(@, <<curr, st.startline, st.insertline, line>>),
                            !.takenext = wraplines_match(w, line),
                            !.insertline = @ + 1]
            ELSE [st EXCEPT !.insertline = @ + 1]
        ELSE [st EXCEPT !.status = "None"]
    ELSE st

RECURSIVE Scan(_, _, _, _, _, _, _)
\* The whole loop over the lines of a delta text, from line i on.
Scan(st, curr, ishead, text, i, p, w) ==
    IF i > Len(text) THEN st
    ELSE Scan(ScanLine(st, curr, ishead, Len(text), i, text[i], p, w),
              curr, ishead, text, i + 1, p, w)

\* Lines 379-389: the matches of curr left after the deletions move to the
\* numbering of curr.
AdjustMatch(m, curr, insertions, deletions) ==
    IF m[1] = curr
    THEN <<m[1], m[2] + SumN(insertions, m[2]) - SumN(deletions, m[2]), m[3]>>
    ELSE m

\* Lines 395-410: 1 when a deletion has the anchor of the insertion the line
\* belongs to.  deliter walks the sorted deletions up to the first whose
\* anchor is not below the anchor of the insertion.
MatchOverlap(startline, deletions) ==
    LET idx == {j \in 1..Len(deletions) : deletions[j][1] >= startline}
        first == CHOOSE j \in idx : \A l \in idx : j <= l
    IN IF idx # {} /\ deletions[first][1] = startline THEN 1 ELSE 0

\* Lines 411-420: the line number of a matching inserted line.
AdjustInsert(m, insertions, deletions) ==
    <<m[1],
      m[2] + m[3] + SumN(insertions, m[2]) - SumN(deletions, m[2])
        - MatchOverlap(m[2], deletions),
      m[4]>>

\* Lines 428-433: the index (from 0) of the first match of the trailing run
\* of matches of curr, -1 when the list does not end with one.
FirstOfCurr(ms, curr) ==
    LET run == {j \in 1..Len(ms) : \A l \in j..Len(ms) : ms[l][1] = curr}
    IN IF run = {} THEN -1
       ELSE (CHOOSE j \in run : \A l \in run : j <= l) - 1

\* Line 434: matches[first_of_curr:] = sorted(matches[first_of_curr:])
SortTail(ms, curr) ==
    LET f == FirstOfCurr(ms, curr)
        \* a negative index counts from the end of the list
        from == IF f >= 0 THEN f + 1
                ELSE IF Len(ms) = 0 THEN 1 ELSE Len(ms)
    IN SubSeq(ms, 1, from - 1) \o SortedBy(SubSeq(ms, from, Len(ms)), MatchLeq)

\* Lines 372-434: after the scan st of the delta text of curr, with the
\* insertions and the deletions sorted.
Renumber(st, curr, insertions, deletions) ==
    LET adjusted == [j \in 1..Len(st.matches) |->
                        AdjustMatch(st.matches[j], curr, insertions, deletions)]
        inserted == [j \in 1..Len(st.insertlines) |->
                        AdjustInsert(st.insertlines[j], insertions, deletions)]
    IN Once(LAMBDA ms : SortTail(ms, curr), adjusted \o inserted)

\* Lines 308-434: the visit of the delta curr.
VisitDelta(ms, curr, ishead, text, p, w) ==
    Once(LAMBDA st :
            Once(LAMBDA ins :
                    Once(LAMBDA del : Renumber(st, curr, ins, del),
                         SortedBy(st.deletions, PairLeq)),
                 SortedBy(st.insertions, PairLeq)),
         Scan(ScanInit(ms), curr, ishead, text, 1, p, w))

----------------------------------------------------------------------------
(* The file model.                                                         *)

\* What an operation hands to its caller: a value, or an error raised.
NoResult == [status |-> "none", value |-> ""]
Return(v) == [status |-> "returned", value |-> v]
Raise(e) == [status |-> "raised", value |-> e]

\* get_head: admin.head when set.  The fallback iterates self._deltas, a
\* dict keyed by deltanum, and reads d.deltanum of each key, a string: it
\* raises AttributeError (max() of no revision raises ValueError).
get_head ==
    IF admin_head # NoRev THEN Return(admin_head)
    ELSE IF DOMAIN deltas # {} THEN Raise("AttributeError")
    ELSE Raise("ValueError")

\* get_next_tuples: a (deltanum, next) tuple per delta.  The order of a
\* dict is arbitrary and the deltanums are its keys, so the tuples are a set.
get_next_tuples == {<<d, deltas[d]>> : d \in DOMAIN deltas}

\* The tuple of nexts for deltanum d (the `for ... break` search), if any.
FindTuple(ts, d) == {t \in ts : t[1] = d}

\* get_head()
CallGetHead ==
    /\ op = "none"
    /\ op' = "head"
    /\ pc' = IF get_head.status = "returned" THEN "done" ELSE "raised"
    /\ result' = get_head
    /\ UNCHANGED <<admin_head, deltas, deltatexts, arg, pattern, format,
                   wraplines, nexts, ancestors, warnings, di, matches, pj>>

\* get_ancestor_tuples(deltanum), line 204-205
CallAncestors ==
    /\ op = "none"
    /\ \E r \in DOMAIN deltas :
          /\ op' = "ancestors"
          /\ arg' = r
          /\ nexts' = get_next_tuples
          /\ ancestors' = <<>>
          /\ pc' = "anc_first"
    /\ UNCHANGED <<admin_head, deltas, deltatexts, pattern, format,
                   wraplines, warnings, di, matches, pj, result>>

\* Lines 206-211, and the first evaluation of ancestors[-1] at line 214,
\* which raises IndexError when deltanum is no delta.
AncFirst ==
    /\ pc = "anc_first"
    /\ LET found == FindTuple(nexts, arg) IN
         IF found = {}
         THEN /\ pc' = "raised"
              /\ result' = Raise("IndexError")
              /\ UNCHANGED <<nexts, ancestors>>
         ELSE LET t == CHOOSE t \in found : TRUE IN
              /\ ancestors' = <<t>>
              /\ nexts' = nexts \ {t}
              /\ pc' = "anc_while"
              /\ UNCHANGED result
    /\ UNCHANGED <<admin_head, deltas, deltatexts, op, arg, pattern, format,
                   wraplines, warnings, di, matches, pj>>

\* AncStep with the search made on the deltanum of the last ancestor, not on
\* its next.
AncStepOnDeltanum(ts, anc) ==
    LET found == FindTuple(ts, anc[Len(anc)][1]) IN
    IF found = {}
    THEN [nexts |-> ts, ancestors |-> anc, warned |-> TRUE]
    ELSE LET t == CHOOSE t \in found : TRUE IN
         [nexts |-> ts \ {t}, ancestors |-> Append(anc, t), warned |-> FALSE]

\* One pass of the body of `while ancestors[-1][1]` (lines 214-223).
AncStep(ts, anc) ==
    LET found == FindTuple(ts, anc[Len(anc)][2]) IN
    IF found = {}
    THEN [nexts |-> ts, ancestors |-> anc, warned |-> TRUE]
    ELSE LET t == CHOOSE t \in found : TRUE IN
         [nexts |-> ts \ {t}, ancestors |-> Append(anc, t), warned |-> FALSE]

AncWhile ==
    /\ pc = "anc_while"
    /\ IF ancestors[Len(ancestors)][2] = NoRev
       THEN /\ pc' = "anc_ret"
            /\ UNCHANGED <<nexts, ancestors, warnings>>
       ELSE LET s == AncStep(nexts, ancestors) IN
            /\ nexts' = s.nexts
            /\ ancestors' = s.ancestors
            /\ warnings' = IF s.warned
                           THEN Append(warnings, <<"Missing delta", arg>>)
                           ELSE warnings
            /\ pc' = IF s.warned THEN "anc_ret" ELSE "anc_while"
    /\ UNCHANGED <<admin_head, deltas, deltatexts, op, arg, pattern, format,
                   wraplines, di, matches, pj, result>>

\* Line 224, to the caller of get_ancestor_tuples.
AncReturn ==
    /\ pc = "anc_ret"
    /\ op = "ancestors"
    /\ result' = Return(ancestors)
    /\ pc' = "done"
    /\ UNCHANGED <<admin_head, deltas, deltatexts, op, arg, pattern, format,
                   wraplines, nexts, ancestors, warnings, di, matches, pj>>

----------------------------------------------------------------------------
(* grep.                                                                   *)

\* The formats grep is called with: "rlL" (the default), "rf", "Lx", "x".
Formats == {<<"r", "l", "L">>, <<"r", "f">>, <<"L", "x">>, <<"x">>}

KnownAttr(c) == c \in {"r", "l", "L", "a", "d", "D", "t", "f", "m"}

\* One attribute of a formatted match (lines 446-470).  The model holds no
\* author, date, tag or message: those attributes are the pair of the
\* directive and the revision.
FormatAttr(m, c) ==
    CASE c = "r" -> m[1]
      [] c = "l" -> m[2]
      [] c = "L" -> m[3]
      [] c = "f" -> "?"
      [] OTHER -> <<c, m[1]>>

\* Lines 439-475: the value grep returns, or the error it raises.  The
\* directives are looked at once per match, inside the loop over matches.
Formatted(ms, f) ==
    IF f = <<"r", "l", "L">> THEN Return(ms)
    ELSE IF ms # <<>> /\ \E j \in 1..Len(f) : ~KnownAttr(f[j])
    THEN Raise("ValueError")
    ELSE Return([i \in 1..Len(ms) |->
                    [j \in 1..Len(f) |-> FormatAttr(ms[i], f[j])]])

\* grep(pattern, format, wraplines) with a format of fs: line 291-306, up to
\* the call of get_ancestor_tuples(self.get_head()).
GrepWith(fs) ==
    /\ op = "none"
    /\ \E p \in Patterns, f \in fs, w \in BOOLEAN :
          /\ pattern' = p
          /\ format' = f
          /\ wraplines' = w
    /\ op' = "grep"
    /\ matches' = <<>>
    /\ IF get_head.status = "returned"
       THEN /\ arg' = get_head.value
            /\ nexts' = get_next_tuples
            /\ ancestors' = <<>>
            /\ pc' = "anc_first"
            /\ UNCHANGED result
       ELSE /\ pc' = "raised"
            /\ result' = get_head
            /\ UNCHANGED <<arg, nexts, ancestors>>
    /\ UNCHANGED <<admin_head, deltas, deltatexts, warnings, di, pj>>

\* grep(pattern, wraplines=w): the format is the default, "rlL".
CallGrep == GrepWith({<<"r", "l", "L">>})

\* grep(pattern, format, wraplines=w)
CallGrepFormat == GrepWith(Formats)

\* Line 306-307: get_ancestor_tuples has returned, the loop over the
\* ancestors starts.
GrepAncestors ==
    /\ pc = "anc_ret"
    /\ op = "grep"
    /\ di' = 1
    /\ pc' = "delta"
    /\ UNCHANGED <<admin_head, deltas, deltatexts, op, arg, pattern, format,
                   wraplines, nexts, ancestors, warnings, matches, pj, result>>

\* Lines 308-435: the visit of ancestors[di], up to `if next:`.
\* get_deltatext raises ValueError for a delta with no delta text.
GrepDelta ==
    /\ pc = "delta"
    /\ di <= Len(ancestors)
    /\ LET curr == ancestors[di][1]
           next == ancestors[di][2]
       IN IF curr \notin DOMAIN deltatexts
          THEN /\ pc' = "raised"
               /\ result' = Raise("ValueError")
               /\ UNCHANGED <<matches, pj, di>>
          ELSE /\ matches' = VisitDelta(matches, curr, di = 1, deltatexts[curr],
                                        pattern, wraplines)
               /\ IF next # NoRev
                  THEN /\ pc' = "propagate"
                       /\ pj' = 1
                       /\ UNCHANGED di
                  ELSE /\ di' = di + 1
                       /\ UNCHANGED <<pc, pj>>
               /\ UNCHANGED result
    /\ UNCHANGED <<admin_head, deltas, deltatexts, op, arg, pattern, format,
                   wraplines, nexts, ancestors, warnings>>

\* Lines 436-438: one iteration of `for match in matches`, which appends to
\* the list it iterates; the end of the loop moves to the next delta.
GrepPropagate ==
    /\ pc = "propagate"
    /\ LET curr == ancestors[di][1]
           next == ancestors[di][2]
       IN IF pj <= Len(matches)
          THEN /\ matches[pj][1] = curr => Len(matches) < MaxMatches
               /\ matches' = IF matches[pj][1] = curr
                             THEN Append(matches,
                                         <<next, matches[pj][2], matches[pj][3]>>)
                             ELSE matches
               /\ pj' = pj + 1
               /\ UNCHANGED <<pc, di>>
          ELSE /\ pc' = "delta"
               /\ di' = di + 1
               /\ UNCHANGED <<matches, pj>>
    /\ UNCHANGED <<admin_head, deltas, deltatexts, op, arg, pattern, format,
                   wraplines, nexts, ancestors, warnings, result>>

\* Lines 439-475: the loop over the ancestors is over.
GrepReturn ==
    /\ pc = "delta"
    /\ di > Len(ancestors)
    /\ result' = Formatted(matches, format)
    /\ pc' = IF result'.status = "raised" THEN "raised" ELSE "done"
    /\ UNCHANGED <<admin_head, deltas, deltatexts, op, arg, pattern, format,
                   wraplines, nexts, ancestors, warnings, di, matches, pj>>

----------------------------------------------------------------------------
(* The files the model is built from.  An edit script is a sequence of     *)
(* commands [op, M, N, lines]; its delta text is the lines of the commands *)
(* and of their payloads, as RCS writes them.                              *)

SeqsUpTo(S, k) == UNION {[1..n -> S] : n \in 0..k}

\* The texts of a head: up to MaxHead lines, each ended by a newline.
HeadTexts == SeqsUpTo(Alphabet, MaxHead)

Payloads == SeqsUpTo(Alphabet, MaxBlock) \ {<<>>}

\* The commands on a source of n lines.
Cmds(n) ==
    {[op |-> "d", M |-> m, N |-> k, lines |-> <<>>] :
        m \in 1..n, k \in 1..n}
    \cup {[op |-> "a", M |-> m, N |-> Len(pl), lines |-> pl] :
        m \in 0..n, pl \in Payloads}

RECURSIVE PayloadLines(_)
PayloadLines(s) ==
    IF s = <<>> THEN 0 ELSE Len(Head(s).lines) + PayloadLines(Tail(s))

\* A well-formed script on a source of n lines: the commands are sorted by M
\* (a deletion before the insertion of the same M, one of each at most), the
\* deleted ranges lie in the source and do not overlap, and no insertion is
\* anchored inside a deleted range (on its first or its last line it may be).
\* A script of the model has MaxBlock payload lines at most.
WellFormed(s, n) ==
    /\ \A i \in 1..Len(s) : s[i].op = "d" => s[i].M + s[i].N - 1 <= n
    /\ \A i, j \in 1..Len(s) : i < j =>
          /\ s[i].M <= s[j].M
          /\ s[i].M = s[j].M => s[i].op = "d" /\ s[j].op = "a"
          /\ s[i].op = "d" /\ s[j].op = "d" => s[i].M + s[i].N <= s[j].M
          /\ s[i].op = "d" /\ s[j].op = "a" =>
                ~(s[i].M < s[j].M /\ s[j].M < s[i].M + s[i].N - 1)
    /\ PayloadLines(s) <= MaxBlock

ScriptsFor(n) == {s \in SeqsUpTo(Cmds(n), MaxCmds) : WellFormed(s, n)}

\* The longest source a script of the model is applied to.
MaxSource == MaxHead + (MaxRevs - 1) * MaxBlock

ScriptsOf == [n \in 0..MaxSource |-> ScriptsFor(n)]

RECURSIVE TargetLen(_, _)
\* The number of lines of the revision a script makes of a source of n lines.
TargetLen(n, s) ==
    IF s = <<>> THEN n
    ELSE TargetLen(IF Head(s).op = "d" THEN n - Head(s).N ELSE n + Head(s).N,
                   Tail(s))

CmdLine(c) == IF c.op = "d" THEN D(c.M, c.N) ELSE A(c.M, c.N)

RECURSIVE ScriptLines(_)
ScriptLines(s) ==
    IF s = <<>> THEN <<>>
    ELSE <<CmdLine(Head(s))>> \o Head(s).lines \o ScriptLines(Tail(s))

\* text.split('\n') of a text whose lines each end with a newline.
SplitText(lines) == lines \o <<EmptyLine>>

RECURSIVE ScriptChains(_, _)
\* The sequences of k scripts, the first on a source of n lines and each
\* next one on the revision the one before it makes.
ScriptChains(k, n) ==
    IF k = 0 THEN {<<>>}
    ELSE UNION {{<<s>> \o r : r \in ScriptChains(k - 1, TargetLen(n, s))} :
                   s \in ScriptsOf[n]}

\* The revision of the trunk at distance i from a head 1.k.
Rev(k, i) == <<1, k - i>>

\* A revision that no file of the model holds.
Missing == <<1, 0>>

\* The state after RCSFile(...) of a file with an unbroken trunk of k
\* revisions, head 1.k, head text h and the scripts ss.
FileInit(k, h, ss) ==
    /\ admin_head = Rev(k, 0)
    /\ deltas = [r \in {Rev(k, i) : i \in 0..(k - 1)} |->
                    IF r = <<1, 1>> THEN NoRev ELSE <<1, r[2] - 1>>]
    /\ deltatexts = [r \in {Rev(k, i) : i \in 0..(k - 1)} |->
                        IF r = Rev(k, 0) THEN SplitText(h)
                        ELSE SplitText(ScriptLines(ss[k - r[2]]))]

Idle ==
    /\ op = "none"
    /\ pc = "idle"
    /\ arg = NoRev
    /\ pattern = ""
    /\ format = <<>>
    /\ wraplines = FALSE
    /\ nexts = {}
    /\ ancestors = <<>>
    /\ warnings = <<>>
    /\ di = 0
    /\ matches = <<>>
    /\ pj = 0
    /\ result = NoResult

Init ==
    /\ \E k \in 1..MaxRevs : \E h \in HeadTexts :
          \E ss \in ScriptChains(k - 1, Len(h)) : FileInit(k, h, ss)
    /\ Idle

\* The revisions of the files whose next fields are arbitrary.
ChainRevs == {<<1, i>> : i \in 1..MaxChain}

\* What a next field holds: nothing, a revision, or a revision no file holds.
NextFields == {NoRev, Missing} \cup ChainRevs

\* The delta texts of those files: "foo\\\nbar\n", "d1 1\n", "a1 1\nfoo\n".  Each
\* is a literal text in a head and an edit script elsewhere.
ChainTexts ==
    {SplitText(<<T("foo\\"), T("bar")>>), SplitText(<<D(1, 1)>>),
     SplitText(<<A(1, 1), T("foo")>>)}

\* The state after RCSFile(...) of a file whose head is one of its revisions
\* and whose next fields are arbitrary: empty, dangling, or naming any
\* revision of the file, the revision itself or an earlier one included.
InitChain ==
    /\ \E S \in SUBSET ChainRevs \ {{}} :
          /\ admin_head \in S
          /\ deltas \in [S -> NextFields]
          /\ deltatexts \in [S -> ChainTexts]
    /\ Idle

\* Files with an unbroken trunk whose scripts are empty.
InitFormat ==
    /\ \E k \in 1..MaxRevs : \E h \in HeadTexts :
          FileInit(k, h, [i \in 1..(k - 1) |-> <<>>])
    /\ Idle

\* Files for get_ancestor_tuples: the next fields are arbitrary, the texts
\* are not read.
InitAnc ==
    /\ \E S \in SUBSET ChainRevs \ {{}} :
          /\ admin_head \in S
          /\ deltas \in [S -> NextFields]
          /\ deltatexts = [r \in S |-> SplitText(<<>>)]
    /\ Idle

\* The revisions of the files get_head is called on: 1.2, 1.9, 1.10, 2.1 and
\* the branch revisions 1.9.1.1 and 3.1.1.1.
HeadRevs == {<<1, 2>>, <<1, 9>>, <<1, 10>>, <<2, 1>>, <<1, 9, 1, 1>>,
             <<3, 1, 1, 1>>}

\* Files for get_head: the head of the admin block is set or not, the deltas
\* are any revisions.
InitHead ==
    /\ \E S \in SUBSET HeadRevs :
          /\ admin_head \in {NoRev} \cup HeadRevs
          /\ deltas = [r \in S |-> NoRev]
          /\ deltatexts = [r \in S |-> SplitText(<<>>)]
    /\ Idle

Next ==
    \/ CallGrep
    \/ AncFirst
    \/ AncWhile
    \/ GrepAncestors
    \/ GrepDelta
    \/ GrepPropagate
    \/ GrepReturn

Spec == Init /\ [][Next]_vars

\* grep on files whose next fields are arbitrary.
SpecChain == InitChain /\ [][Next]_vars

NextFormat ==
    \/ CallGrepFormat
    \/ AncFirst
    \/ AncWhile
    \/ GrepAncestors
    \/ GrepDelta
    \/ GrepPropagate
    \/ GrepReturn

\* grep with a format.
SpecFormat == InitFormat /\ [][NextFormat]_vars

NextAnc ==
    \/ CallAncestors
    \/ AncFirst
    \/ AncWhile
    \/ AncReturn

\* get_ancestor_tuples.
SpecAnc == InitAnc /\ [][NextAnc]_vars

\* get_head.
SpecHead == InitHead /\ [][CallGetHead]_vars

----------------------------------------------------------------------------
(* The revisions a file holds, by the definition of the RCS format: the    *)
(* head text is literal, and the delta text of every other revision is the *)
(* script that makes it from the revision whose next it is.  The lines     *)
(* that follow `a M N` are N lines of text, whatever they look like.       *)

RECURSIVE ParseScript(_, _)
\* The commands of a delta text (as split into lines), from line i on.
ParseScript(text, i) ==
    IF i > Len(text) THEN <<>>
    ELSE IF text[i].k = "d"
    THEN <<[op |-> "d", M |-> text[i].M, N |-> text[i].N, lines |-> <<>>]>>
         \o ParseScript(text, i + 1)
    ELSE IF text[i].k = "a"
    THEN <<[op |-> "a", M |-> text[i].M, N |-> text[i].N,
            lines |-> SubSeq(text, i + 1, i + text[i].N)]>>
         \o ParseScript(text, i + text[i].N + 1)
    ELSE <<>>

\* The payload a script inserts after line m of its source.
InsertedAfter(cmds, m) ==
    LET at == {j \in 1..Len(cmds) : cmds[j].op = "a" /\ cmds[j].M = m}
    IN IF at = {} THEN <<>> ELSE cmds[CHOOSE j \in at : TRUE].lines

\* Whether a script deletes line i of its source.
Deletes(cmds, i) ==
    \E j \in 1..Len(cmds) :
        cmds[j].op = "d" /\ cmds[j].M <= i /\ i < cmds[j].M + cmds[j].N

RECURSIVE ApplyFrom(_, _, _)
ApplyFrom(src, cmds, i) ==
    IF i > Len(src) THEN <<>>
    ELSE (IF Deletes(cmds, i) THEN <<>> ELSE <<src[i]>>)
         \o InsertedAfter(cmds, i) \o ApplyFrom(src, cmds, i + 1)

\* The revision a script makes of the lines src.
ApplyScript(src, cmds) == InsertedAfter(cmds, 0) \o ApplyFrom(src, cmds, 1)

\* The lines of a text, given as split on '\n'.
TextLines(text) == SubSeq(text, 1, Len(text) - 1)

RECURSIVE Checkout(_)
\* The lines of revision r of a file whose chain from head is unbroken.
Checkout(r) ==
    IF r = admin_head THEN TextLines(deltatexts[r])
    ELSE ApplyScript(Checkout(CHOOSE q \in DOMAIN deltas : deltas[q] = r),
                     ParseScript(deltatexts[r], 1))

\* grep has returned its list of matches.
GrepReturned == op = "grep" /\ pc = "done" /\ result.status = "returned"

\* Some payload line of the file has the shape of an edit command.
CommandInPayload ==
    \E r \in DOMAIN deltas \ {admin_head} :
        LET cmds == ParseScript(deltatexts[r], 1) IN
        \E j \in 1..Len(cmds) : \E l \in 1..Len(cmds[j].lines) :
            cmds[j].lines[l].k \in {"a", "d"}

\* (r, n, line) is line n of revision r.
IsLineOf(m) ==
    /\ m[1] \in DOMAIN deltas
    /\ 1 <= m[2] /\ m[2] <= Len(Checkout(m[1]))
    /\ Checkout(m[1])[m[2]] = m[3]

\* C1: in a file with an unbroken chain and well-formed scripts, every
\* tuple (r, n, line) grep returns (default format) is such that line is the
\* n-th line of revision r as the edit scripts make it from head.
LineNumberCorrect ==
    GrepReturned =>
        \A i \in 1..Len(result.value) : IsLineOf(result.value[i])

\* The same, for the files in which no payload line has the shape of an edit
\* command.
LineNumberCorrectPlain ==
    GrepReturned /\ ~CommandInPayload =>
        \A i \in 1..Len(result.value) : IsLineOf(result.value[i])

\* The tuples grep returned.
Emitted == {result.value[i] : i \in 1..Len(result.value)}

\* The revisions older than head, whose delta texts are edit scripts.
Older == DOMAIN deltas \ {admin_head}

\* The tuples of the lines of head that match the pattern, in order.
HeadMatches ==
    LET lines == TextLines(deltatexts[admin_head])
        Hit(i) == matcher_match(pattern, lines[i])
        idx == {i \in 1..Len(lines) : Hit(i)}
        Nth(n) == CHOOSE i \in idx : Cardinality({l \in idx : l < i}) = n - 1
    IN [n \in 1..Cardinality(idx) |-> <<admin_head, Nth(n), lines[Nth(n)]>>]

\* Every line of every revision that matches the pattern is returned.
AllMatchesEmitted ==
    \A r \in DOMAIN deltas : \A n \in 1..Len(Checkout(r)) :
        matcher_match(pattern, Checkout(r)[n])
            => <<r, n, Checkout(r)[n]>> \in Emitted

\* C2: in a file with an unbroken chain and well-formed scripts, grep returns
\* (r, n, text) for every line n of every revision r whose text matches the
\* pattern at column 0; for a file of the head alone (and no continuation
\* lines asked for) it returns exactly the matching lines of head, each with
\* its 1-based index.
Complete ==
    GrepReturned =>
        /\ AllMatchesEmitted
        /\ (DOMAIN deltas = {admin_head} /\ ~wraplines)
              => result.value = HeadMatches

\* The same, for the files in which no payload line has the shape of an edit
\* command.
CompletePlain ==
    GrepReturned /\ ~CommandInPayload =>
        /\ AllMatchesEmitted
        /\ (DOMAIN deltas = {admin_head} /\ ~wraplines)
              => result.value = HeadMatches

\* The single-revision part of C2.
CompleteHeadOnly ==
    GrepReturned /\ DOMAIN deltas = {admin_head} =>
        /\ AllMatchesEmitted
        /\ ~wraplines => result.value = HeadMatches

EndsInBackslash(line) == line.k = "t" /\ line.s = "foo\\"

\* In revision r, every emitted line that ends in a backslash has the line
\* after it emitted too.
ContinuationsOf(r) ==
    \A k \in 1..(Len(Checkout(r)) - 1) :
        (<<r, k, Checkout(r)[k]>> \in Emitted /\ EndsInBackslash(Checkout(r)[k]))
            => <<r, k + 1, Checkout(r)[k + 1]>> \in Emitted

\* C3: with wraplines set, for every revision r of the chain, if line k of r
\* is emitted and ends in a backslash then line k+1 of r is emitted as
\* (r, k+1, text), whether it matches the pattern or not.
ContinuationEmitted ==
    GrepReturned /\ wraplines => \A r \in DOMAIN deltas : ContinuationsOf(r)

\* The same, for the files in which no payload line has the shape of an edit
\* command.
ContinuationEmittedPlain ==
    GrepReturned /\ wraplines /\ ~CommandInPayload =>
        \A r \in DOMAIN deltas : ContinuationsOf(r)

\* The part of C3 that is about the literal text of head.
ContinuationEmittedHead ==
    GrepReturned /\ wraplines => ContinuationsOf(admin_head)

\* What the scan of the delta text of r records (lines 328-371).
Scanned(r) == Scan(ScanInit(<<>>), r, FALSE, deltatexts[r], 1, pattern, wraplines)

\* The deletions and the insertions of a script, as (M, N) tuples in order.
CommandsOf(cmds, o) ==
    LET sel == SelectSeq(cmds, LAMBDA c : c.op = o)
    IN [j \in 1..Len(sel) |-> <<sel[j].M, sel[j].N>>]

\* Every payload line of r that matches the pattern is recorded as the k-th
\* line of its block.
PayloadTested(r) ==
    LET cmds == ParseScript(deltatexts[r], 1)
        found == Scanned(r).insertlines
    IN \A j \in 1..Len(cmds) : \A k \in 1..Len(cmds[j].lines) :
          matcher_match(pattern, cmds[j].lines[k])
             => \E l \in 1..Len(found) :
                   found[l] = <<r, cmds[j].M, k, cmds[j].lines[k]>>

\* C8: the N lines that follow `a M N` are literal text whatever they look
\* like: the deletions and insertions grep records for a revision are the
\* commands of its script and no more, and every payload line is tested
\* against the pattern as the k-th line of its block.
PayloadLiteral ==
    GrepReturned =>
        \A r \in Older :
            /\ Scanned(r).deletions = CommandsOf(ParseScript(deltatexts[r], 1), "d")
            /\ Scanned(r).insertions = CommandsOf(ParseScript(deltatexts[r], 1), "a")
            /\ PayloadTested(r)

\* The same, for the files in which no payload line has the shape of an edit
\* command.
PayloadLiteralPlain ==
    GrepReturned /\ ~CommandInPayload =>
        \A r \in Older :
            /\ Scanned(r).deletions = CommandsOf(ParseScript(deltatexts[r], 1), "d")
            /\ Scanned(r).insertions = CommandsOf(ParseScript(deltatexts[r], 1), "a")
            /\ PayloadTested(r)

\* The line number C9 gives the k-th payload line of the insertion anchored
\* at m in the script cmds.
OverlapNumber(cmds, m, k) ==
    m + k - (IF \E j \in 1..Len(cmds) : cmds[j].op = "d" /\ cmds[j].M = m
             THEN 1 ELSE 0)
      + SumN(CommandsOf(cmds, "a"), m) - SumN(CommandsOf(cmds, "d"), m)

PayloadNumbered(r) ==
    LET cmds == ParseScript(deltatexts[r], 1)
    IN \A j \in 1..Len(cmds) : \A k \in 1..Len(cmds[j].lines) :
          matcher_match(pattern, cmds[j].lines[k])
             => <<r, OverlapNumber(cmds, cmds[j].M, k), cmds[j].lines[k]>>
                   \in Emitted

\* C9: a matching payload line at offset k of the block `aM P` is emitted with
\* line number M + k + (sum of N over insertions with anchor < M) - (sum of N
\* over deletions with anchor < M), less one when a deletion `dM N` of the
\* script shares the anchor M.
OverlapAdjusted == GrepReturned => \A r \in Older : PayloadNumbered(r)

\* The same, for the files in which no payload line has the shape of an edit
\* command.
OverlapAdjustedPlain ==
    GrepReturned /\ ~CommandInPayload => \A r \in Older : PayloadNumbered(r)

----------------------------------------------------------------------------
(* The order of the output, the format, the chain and the head.            *)

\* The place of the group of revision r in the output: its index in the
\* chain, and after every revision of the chain when r is not one of them
\* (the matches propagated from the last revision gathered).
ChainPos(r) ==
    LET at == {i \in 1..Len(ancestors) : ancestors[i][1] = r}
    IN IF at = {} THEN Len(ancestors) + 1 ELSE CHOOSE i \in at : TRUE

\* C6: in the list grep returns (default format) the matches of one revision
\* are contiguous and in non-decreasing order of line number, and the groups
\* come in chain order, head first, each older revision after the newer one.
OutputOrdered ==
    GrepReturned =>
        LET v == result.value IN
        \A i, j \in 1..Len(v) : i < j =>
            /\ v[i][1] = v[j][1] =>
                  /\ v[i][2] <= v[j][2]
                  /\ \A l \in i..j : v[l][1] = v[i][1]
            /\ v[i][1] # v[j][1] => ChainPos(v[i][1]) < ChainPos(v[j][1])

\* No next field names a revision the walk from head has gathered before.
ChainAcyclic ==
    \A i, j \in 1..Len(ancestors) : ancestors[i][2] # ancestors[j][1] \/ i < j

\* The same as C6, for the chains that come back to no revision.
OutputOrderedAcyclic ==
    GrepReturned /\ ChainAcyclic =>
        LET v == result.value IN
        \A i, j \in 1..Len(v) : i < j =>
            /\ v[i][1] = v[j][1] =>
                  /\ v[i][2] <= v[j][2]
                  /\ \A l \in i..j : v[l][1] = v[i][1]
            /\ v[i][1] # v[j][1] => ChainPos(v[i][1]) < ChainPos(v[j][1])

GrepEnded == op = "grep" /\ pc \in {"done", "raised"}

\* C4: grep with a format that holds a character outside r, l, L, a, d, D, t,
\* f, m raises ValueError and returns nothing, whatever the number of
\* matches; with a format of known directives it does not raise that error.
BadFormatRaises ==
    GrepEnded =>
        IF \E j \in 1..Len(format) : ~KnownAttr(format[j])
        THEN result = Raise("ValueError")
        ELSE result.status = "returned"

\* The same, for the calls that find a match at least.
BadFormatRaisesOnMatch ==
    GrepEnded /\ matches # <<>> =>
        IF \E j \in 1..Len(format) : ~KnownAttr(format[j])
        THEN result = Raise("ValueError")
        ELSE result.status = "returned"

\* The deltanums of the file with two components, and the greatest of them
\* under the numeric order of the components.
Trunk == {r \in DOMAIN deltas : Len(r) = 2}
RevLeq(a, b) == a[1] < b[1] \/ (a[1] = b[1] /\ a[2] <= b[2])
MaxTrunk == CHOOSE r \in Trunk : \A q \in Trunk : RevLeq(q, r)

HeadEnded == op = "head" /\ pc \in {"done", "raised"}

\* C7: get_head returns the head of the admin block when it is set; when it
\* is not and the file holds a revision of two components, it returns the
\* greatest of them under the numeric order of the components.
HeadResolved ==
    HeadEnded =>
        /\ admin_head # NoRev => result = Return(admin_head)
        /\ (admin_head = NoRev /\ Trunk # {}) => result = Return(MaxTrunk)

\* The part of C7 that is about a head that is set.
HeadOfAdmin == HeadEnded /\ admin_head # NoRev => result = Return(admin_head)

\* The propagation loop at line 436 is about to append to a list that has
\* reached the cap of the model.
AtCap ==
    /\ pc = "propagate"
    /\ pj <= Len(matches)
    /\ matches[pj][1] = ancestors[di][1]
    /\ Len(matches) >= MaxMatches

\* C10: grep ends, with a list or with an error, whatever the next fields of
\* the file are: as long as it has not ended it has a step to take, and the
\* list of matches does not grow past every bound.
GrepTerminates == op = "grep" => (pc \in {"done", "raised"} \/ ENABLED Next)

\* The list reaches the cap only where next names curr: the cap cuts short
\* no run of grep on another file.
CapOnSelfNext == AtCap => ancestors[di][1] = ancestors[di][2]

\* The matches of curr that the propagation loop has still to visit.
LeftToVisit ==
    Cardinality({j \in pj..Len(matches) : matches[j][1] = ancestors[di][1]})

\* Where next does not name curr, every iteration of the propagation loop on
\* a match of curr leaves one match of curr less to visit.
PropagationProgress ==
    [][(/\ pc = "propagate" /\ pj <= Len(matches)
        /\ matches[pj][1] = ancestors[di][1]
        /\ ancestors[di][1] # ancestors[di][2])
          => LeftToVisit' = LeftToVisit - 1]_vars

\* Where next names curr, no iteration does: the loop appends a match of curr
\* for each one it visits.
PropagationStalls ==
    [][(/\ pc = "propagate" /\ pj <= Len(matches)
        /\ ancestors[di][1] = ancestors[di][2])
          => LeftToVisit' = LeftToVisit]_vars

----------------------------------------------------------------------------
(* The chain of ancestors.                                                 *)

AncReturned == op = "ancestors" /\ pc = "done"

\* a is a sequence of (deltanum, next) pairs of the file that starts at the
\* argument and in which each later deltanum is the next of the pair before.
ChainLinked(a) ==
    /\ Len(a) >= 1
    /\ a[1][1] = arg
    /\ \A i \in 1..Len(a) : a[i][1] \in DOMAIN deltas /\ a[i][2] = deltas[a[i][1]]
    /\ \A i \in 2..Len(a) : a[i][1] = a[i - 1][2]

\* The next of a[i] is empty or names a revision of the file.
NextPresent(a, i) == a[i][2] = NoRev \/ a[i][2] \in DOMAIN deltas

\* The next of a[i] is empty or names a revision of the file that is not
\* a[i] nor a pair before it.
NextFresh(a, i) ==
    \/ a[i][2] = NoRev
    \/ (a[i][2] \in DOMAIN deltas /\ a[i][2] \notin {a[l][1] : l \in 1..i})

MissingWarned == warnings = <<<<"Missing delta", arg>>>>

\* C5 as stated: get_ancestor_tuples(r) returns a chain of pairs from r; if
\* every next on the way names a revision of the file the last pair has an
\* empty next; if some next names an absent revision a warning is emitted and
\* the chain ends with the pair that has the dangling next.
AncestorChain ==
    AncReturned =>
        LET a == result.value IN
        /\ ChainLinked(a)
        /\ IF \A i \in 1..Len(a) : NextPresent(a, i)
           THEN a[Len(a)][2] = NoRev
           ELSE /\ MissingWarned
                /\ \A i \in 1..(Len(a) - 1) : NextPresent(a, i)

\* C5 as amended: get_ancestor_tuples(r) returns a chain of pairs from r; if
\* every next on the way names a revision of the file that the chain has not
\* gathered yet, the last pair has an empty next and no warning is emitted;
\* if some next names a revision that is absent or already gathered, a
\* warning is emitted and the chain ends with the pair that has that next.
AncestorChainAmended ==
    AncReturned =>
        LET a == result.value IN
        /\ ChainLinked(a)
        /\ IF \A i \in 1..Len(a) : NextFresh(a, i)
           THEN a[Len(a)][2] = NoRev /\ warnings = <<>>
           ELSE /\ MissingWarned
                /\ \A i \in 1..(Len(a) - 1) : NextFresh(a, i)

\* get_ancestor_tuples has returned a chain of two pairs at least whose last
\* next names a revision gathered before, with a warning.
AncestorCycleReturned ==
    /\ AncReturned
    /\ Len(result.value) >= 2
    /\ result.value[Len(result.value)][2]
          \in {result.value[l][1] : l \in 1..Len(result.value)}
    /\ MissingWarned

----------------------------------------------------------------------------
(* The labels of the matches.                                              *)

\* The revisions get_ancestor_tuples(get_head()) gathered.
ChainLabels == {ancestors[j][1] : j \in 1..Len(ancestors)}

\* The chain is broken: its last revision names a next the file does not hold.
ChainBroken ==
    /\ Len(ancestors) >= 1
    /\ ancestors[Len(ancestors)][2] # NoRev
    /\ ancestors[Len(ancestors)][2] \notin DOMAIN deltas

\* C11: every tuple grep returns is labelled with a revision of the file that
\* is the deltanum of an element of ancestors(head()); with a broken chain no
\* match is attributed to the missing revision.
LabelsInChain ==
    GrepReturned =>
        \A i \in 1..Len(result.value) :
            /\ result.value[i][1] \in DOMAIN deltas
            /\ result.value[i][1] \in ChainLabels

\* The same as C11, for the chains that are not broken.
LabelsInChainUnbroken ==
    GrepReturned /\ ~ChainBroken =>
        \A i \in 1..Len(result.value) :
            /\ result.value[i][1] \in DOMAIN deltas
            /\ result.value[i][1] \in ChainLabels

\* With a broken chain, each match of the last revision gathered is returned
\* once more under the missing revision.
MissingLabelled ==
    GrepReturned /\ ChainBroken =>
        LET v == result.value
            last == ancestors[Len(ancestors)] IN
        /\ \A i \in 1..Len(v) : v[i][1] \in ChainLabels \cup {last[2]}
        /\ \A i \in 1..Len(v) : v[i][1] = last[1] =>
              \E j \in 1..Len(v) :
                  v[j] = <<last[2], v[i][2], v[i][3]>>

=============================================================================
